---- MODULE Spec2Model ----
(***************************************************************************)
(* Model of ff_merge/main.py: merging ForeFlight KML flight tracks.        *)
(*                                                                         *)
(* A KML document is a record: its flightTitle text, its Placemarks (each  *)
(* with or without a gx:Track holding <when> and <gx:coord> children) and  *)
(* its gx:SimpleArrayData series.  Every element carries the identity      *)
(* pt = <<file, position>> of the point it was recorded for, so that two   *)
(* elements are equal exactly when they are the same XML element.          *)
(* Strings that the code takes apart (titles) are sequences of characters. *)
(***************************************************************************)
EXTENDS Integers, Sequences, FiniteSets, TLC

(***************************************************************************)
(* Bounds of the model                                                     *)
(***************************************************************************)
MaxTracks == 3
MaxPoints == 2
MaxBad == 2

(***************************************************************************)
(* Generic sequence helpers                                                *)
(***************************************************************************)
Range(s) == {s[i] : i \in DOMAIN s}

RECURSIVE Concat(_)
Concat(ss) == IF ss = <<>> THEN <<>> ELSE Head(ss) \o Concat(Tail(ss))

RECURSIVE SumSeq(_)
SumSeq(ns) == IF ns = <<>> THEN 0 ELSE Head(ns) + SumSeq(Tail(ns))

Min(a, b) == IF a <= b THEN a ELSE b

\* zip(a, b) stops at the shorter argument
ZipLen(a, b) == Min(Len(a), Len(b))

\* list.remove / Element.remove of one element known by identity
RemoveEl(s, e) == SelectSeq(s, LAMBDA x : x # e)

InjectiveSeqs(S, maxLen) ==
    UNION {{s \in [1..n -> S] : \A i, j \in 1..n : i # j => s[i] # s[j]} : n \in 0..maxLen}

(***************************************************************************)
(* Title strings: str.split, str.endswith, str.join                        *)
(***************************************************************************)
SEP == <<" ", "-", " ">>

\* least position p >= from where SEP occurs in s, 0 when there is none
RECURSIVE FindSep(_, _)
FindSep(s, from) ==
    IF from + Len(SEP) - 1 > Len(s) THEN 0
    ELSE IF SubSeq(s, from, from + Len(SEP) - 1) = SEP THEN from
    ELSE FindSep(s, from + 1)

\* title.split(" - ")
RECURSIVE Split(_)
Split(s) ==
    LET p == FindSep(s, 1)
    IN  IF p = 0 THEN <<s>>
        ELSE <<SubSeq(s, 1, p - 1)>> \o Split(SubSeq(s, p + Len(SEP), Len(s)))

\* " - ".join(pieces)
RECURSIVE Join(_)
Join(pieces) ==
    IF pieces = <<>> THEN <<>>
    ELSE IF Len(pieces) = 1 THEN pieces[1]
    ELSE pieces[1] \o SEP \o Join(Tail(pieces))

\* curr_title.endswith(piece)
EndsWith(s, suf) ==
    /\ Len(suf) <= Len(s)
    /\ SubSeq(s, Len(s) - Len(suf) + 1, Len(s)) = suf

\* variant: the overlapping piece is joined on a second time
CombineStep_KeepOverlap(curr_title, title) ==
    IF curr_title = <<>> THEN title
    ELSE LET title_pieces == Split(title)
         IN  IF EndsWith(curr_title, title_pieces[1])
             THEN Join(<<curr_title>> \o title_pieces)
             ELSE curr_title \o title

\* one iteration of the loop of combine_flight_titles
CombineStep(curr_title, title) ==
    IF curr_title = <<>> THEN title
    ELSE LET title_pieces == Split(title)
         IN  IF EndsWith(curr_title, title_pieces[1])
             THEN Join(<<curr_title>> \o Tail(title_pieces))
             ELSE curr_title \o title

RECURSIVE CombineFrom(_, _)
CombineFrom(curr_title, titles) ==
    IF titles = <<>> THEN curr_title
    ELSE CombineFrom(CombineStep(curr_title, Head(titles)), Tail(titles))

combine_flight_titles(titles) == CombineFrom(<<>>, titles)

(***************************************************************************)
(* Documents                                                               *)
(***************************************************************************)
SadNames == <<"speed_kts", "course">>

\* <when> texts end with two decimals and a Z: seconds and centiseconds
StartTimes == {[s |-> 1, cs |-> 50], [s |-> 2, cs |-> 0]}

DefectKinds ==
    {"notrack", "nopoints", "nosad", "shortsad", "longsad", "shortcoord", "longcoord"}

NoDefect == <<"none", 0>>

\* flightTitle of the k-th input file
TitleOf(k) ==
    CASE k = 1 -> <<"A">> \o SEP \o <<"B">>
      [] k = 2 -> <<"B">> \o SEP \o <<"C">>
      [] k = 3 -> <<>>
      [] OTHER -> <<"C">> \o SEP \o <<"A">>

WhenEl(k, i, start) == [pt |-> <<k, i>>, text |-> [s |-> start.s + i - 1, cs |-> start.cs]]

\* "lon lat alt": only the altitude is looked at; the first point of a
\* track sits at altitude 0 unless it is marked bad
CoordEl(k, i, bad) == [pt |-> <<k, i>>, alt |-> IF <<k, i>> \in bad THEN 0 - 1 ELSE i - 1]

ValueEl(k, i, name) == [pt |-> <<k, i>>, sad |-> name]

TracklessPm == [track |-> FALSE, whens |-> <<>>, coords |-> <<>>]

\* The document of input file k: n recorded points starting at start, the
\* points in bad below ground, and at most one structural defect.
MkTree(k, n, start, bad, defect, title) ==
    LET mine == defect[2] = k
        kind == IF mine THEN defect[1] ELSE "none"
        nw == IF kind \in {"notrack", "nopoints"} THEN 0 ELSE n
        nc == CASE kind = "shortcoord" -> nw - 1
                [] kind = "longcoord" -> nw + 1
                [] OTHER -> nw
        nv(name) == IF name # "course" THEN nw
                    ELSE CASE kind = "shortsad" -> nw - 1
                           [] kind = "longsad" -> nw + 1
                           [] OTHER -> nw
        trackPm == [track |-> TRUE,
                    whens |-> [i \in 1..nw |-> WhenEl(k, i, start)],
                    coords |-> [i \in 1..nc |-> CoordEl(k, i, bad)]]
        lead == IF k % 2 = 0 THEN <<TracklessPm>> ELSE <<>>
        names == IF kind = "nosad" THEN <<SadNames[1]>> ELSE SadNames
    IN  [title |-> title,
         pms |-> lead \o (IF kind = "notrack" THEN <<>> ELSE <<trackPm>>),
         sads |-> [j \in 1..Len(names) |->
                     [name |-> names[j],
                      vals |-> [i \in 1..nv(names[j]) |-> ValueEl(k, i, names[j])]]]]

(***************************************************************************)
(* Element lookup                                                          *)
(***************************************************************************)
findall_placemarks(tree) == tree.pms

\* index of the first Placemark that has a gx:Track, 0 for None
find_first_track_placemark(tree) ==
    LET pms == findall_placemarks(tree)
        hits == {i \in 1..Len(pms) : pms[i].track}
    IN  IF hits = {} THEN 0 ELSE CHOOSE i \in hits : \A j \in hits : i <= j

\* tree.find("Document/Placemark/gx:Track"): the same Placemark, seen as its Track
find_track(tree) == find_first_track_placemark(tree)

findall_when(tree) == Concat([i \in 1..Len(tree.pms) |-> tree.pms[i].whens])

findall_coords(tree) == Concat([i \in 1..Len(tree.pms) |-> tree.pms[i].coords])

\* microseconds of datetime.fromisoformat(_fix_iso_dt(text)); -1 when there is no <when>
get_track_start_time(tree) ==
    LET whens == findall_when(tree)
    IN  IF whens = <<>> THEN 0 - 1
        ELSE whens[1].text.s * 1000000 + whens[1].text.cs * 10000

get_sads(tree) == tree.sads

\* variant: the first series, whatever its name
find_sad_AnyName(tree, name) == IF tree.sads = <<>> THEN 0 ELSE 1

\* index of the series called name, 0 for None
find_sad(tree, name) ==
    LET hits == {j \in 1..Len(tree.sads) : tree.sads[j].name = name}
    IN  IF hits = {} THEN 0 ELSE CHOOSE j \in hits : \A h \in hits : j <= h

flight_title(tree) == tree.title

(***************************************************************************)
(* Results of the operations: ok, or the exception that was raised         *)
(***************************************************************************)
Ok(x) == [ok |-> TRUE, err |-> "", val |-> x]

Raise(e, x) == [ok |-> FALSE, err |-> e, val |-> x]

(***************************************************************************)
(* sort_and_select                                                         *)
(***************************************************************************)
\* sorted() is stable: x goes behind every element whose key is not larger
RECURSIVE InsertSorted(_, _, _)
InsertSorted(x, sorted, key) ==
    IF sorted = <<>> THEN <<x>>
    ELSE IF key[Head(sorted)] <= key[x]
         THEN <<Head(sorted)>> \o InsertSorted(x, Tail(sorted), key)
         ELSE <<x>> \o sorted

RECURSIVE StableSort(_, _)
StableSort(xs, key) ==
    IF xs = <<>> THEN <<>>
    ELSE InsertSorted(xs[Len(xs)], StableSort(SubSeq(xs, 1, Len(xs) - 1), key), key)

\* trees[i] for a Python index i: negative indices count from the end
PyIndexOk(xs, i) == 0 - Len(xs) <= i /\ i < Len(xs)

PyIndex(xs, i) == IF i >= 0 THEN xs[i + 1] ELSE xs[Len(xs) + i + 1]

\* variant: the indices pick from the argument order instead of the sorted list
sort_and_select_InputOrder(indices, trees, heap) ==
    IF \E i \in 1..Len(trees) : findall_when(heap[trees[i]]) = <<>>
    THEN Raise("AttributeError", <<>>)
    ELSE LET key == [t \in Range(trees) |-> get_track_start_time(heap[t])]
             sorted == StableSort(trees, key)
         IN  IF indices # <<>>
             THEN IF \E n \in 1..Len(indices) : ~PyIndexOk(trees, indices[n])
                  THEN Raise("IndexError", <<>>)
                  ELSE Ok([n \in 1..Len(indices) |-> PyIndex(trees, indices[n])])
             ELSE IF sorted = <<>> THEN Raise("AssertionError", <<>>)
                  ELSE Ok(sorted)

\* heap: the documents by file number; trees: the file numbers in argument order
sort_and_select(indices, trees, heap) ==
    IF \E i \in 1..Len(trees) : findall_when(heap[trees[i]]) = <<>>
    THEN Raise("AttributeError", <<>>)
    ELSE LET key == [t \in Range(trees) |-> get_track_start_time(heap[t])]
             sorted == StableSort(trees, key)
         IN  IF indices # <<>>
             THEN IF \E n \in 1..Len(indices) : ~PyIndexOk(sorted, indices[n])
                  THEN Raise("IndexError", <<>>)
                  ELSE Ok([n \in 1..Len(indices) |-> PyIndex(sorted, indices[n])])
             ELSE IF sorted = <<>> THEN Raise("AssertionError", <<>>)
                  ELSE Ok(sorted)

(***************************************************************************)
(* merge_simplearraydata                                                   *)
(***************************************************************************)
\* the inner loop: move the values of every donor's series onto base series j
RECURSIVE MergeSadDonors(_, _, _, _)
MergeSadDonors(heap, base, j, others) ==
    IF others = <<>> THEN Ok(heap)
    ELSE LET t == Head(others)
             sj == find_sad(heap[t], heap[base].sads[j].name)
         IN  IF sj = 0 THEN Raise("AssertionError", heap)
             ELSE LET vals == heap[t].sads[sj].vals
                      taken == [heap EXCEPT ![t].sads[sj].vals = <<>>]
                      given == [taken EXCEPT ![base].sads[j].vals = @ \o vals]
                  IN  MergeSadDonors(given, base, j, Tail(others))

SadLengthOk(num_rows, num_sad_values) == num_rows = num_sad_values

RECURSIVE MergeSadFrom(_, _, _, _, _)
MergeSadFrom(heap, base, others, j, num_rows) ==
    IF j > Len(get_sads(heap[base])) THEN Ok(heap)
    ELSE LET r == MergeSadDonors(heap, base, j, others)
         IN  IF ~r.ok THEN r
             ELSE IF ~SadLengthOk(num_rows, Len(r.val[base].sads[j].vals))
                  THEN Raise("AssertionError", r.val)
                  ELSE MergeSadFrom(r.val, base, others, j + 1, num_rows)

merge_simplearraydata(heap, base, others) ==
    MergeSadFrom(heap, base, others, 1, Len(findall_when(heap[base])))

(***************************************************************************)
(* filter_bad_items_from_track                                             *)
(***************************************************************************)
\* variant: altitude 0 counts as bad
IsBadCoord_NonPositive(coord) == coord.alt <= 0

\* float(coord.text.split(" ")[2]) < 0
IsBadCoord(coord) == coord.alt < 0

\* the 0-based positions i of coords_to_drop
DropPositions(coords) == {i \in 0..(Len(coords) - 1) : IsBadCoord(coords[i + 1])}

ReverseDroppedIndices(array_len, drops) == {array_len - i : i \in drops}

\* the positions of a set of integers, largest first: reversed(coords_to_drop)
RECURSIVE Descending(_)
Descending(S) ==
    IF S = {} THEN <<>>
    ELSE LET m == CHOOSE x \in S : \A y \in S : y <= x
         IN  <<m>> \o Descending(S \ {m})

\* track.remove(when); track.remove(coord) for each dropped point, last first;
\* Element.remove raises ValueError for an element that is not a child of track
RECURSIVE RemoveDropped(_, _, _, _, _)
RemoveDropped(tree, track, whens, coords, todo) ==
    IF todo = <<>> THEN Ok(tree)
    ELSE LET when == whens[Head(todo) + 1]
             coord == coords[Head(todo) + 1]
         IN  IF when \notin Range(tree.pms[track].whens)
             THEN Raise("ValueError", tree)
             ELSE LET t1 == [tree EXCEPT !.pms[track].whens = RemoveEl(@, when)]
                  IN  IF coord \notin Range(t1.pms[track].coords)
                      THEN Raise("ValueError", t1)
                      ELSE RemoveDropped(
                               [t1 EXCEPT !.pms[track].coords = RemoveEl(@, coord)],
                               track, whens, coords, Tail(todo))

\* the values of one series that stay: enumerate(reversed(values)) numbers
\* the value at 1-based position p with Len(vals) - p
FilterSadValues(vals, reverse_dropped_indices) ==
    LET keep == {p \in 1..Len(vals) : (Len(vals) - p) \notin reverse_dropped_indices}
    IN  [n \in 1..Cardinality(keep) |->
            vals[CHOOSE p \in keep : Cardinality({q \in keep : q < p}) = n - 1]]

\* variant: the final length assertion left out
FilteredLenOk_Unchecked(len_array_data, filtered_len) == TRUE

FilteredLenOk(len_array_data, filtered_len) == len_array_data = filtered_len

RECURSIVE FilterSadsFrom(_, _, _, _)
FilterSadsFrom(tree, j, reverse_dropped_indices, filtered_len) ==
    IF j > Len(get_sads(tree)) THEN Ok(tree)
    ELSE LET t1 == [tree EXCEPT !.sads[j].vals =
                        FilterSadValues(@, reverse_dropped_indices)]
         IN  IF ~FilteredLenOk(Len(t1.sads[j].vals), filtered_len)
             THEN Raise("AssertionError", t1)
             ELSE FilterSadsFrom(t1, j + 1, reverse_dropped_indices, filtered_len)

filter_bad_items_from_track(tree) ==
    LET track == find_track(tree)
        whens == findall_when(tree)
        coords == findall_coords(tree)
    IN  IF Len(whens) # Len(coords) THEN Raise("AssertionError", tree)
        ELSE LET drops == DropPositions(coords)
                 array_len == Len(whens)
                 reverse_dropped_indices == ReverseDroppedIndices(array_len, drops)
                 r == RemoveDropped(tree, track, whens, coords, Descending(drops))
                 filtered_len == array_len - Cardinality(reverse_dropped_indices)
             IN  IF ~r.ok THEN r
                 ELSE FilterSadsFrom(r.val, 1, reverse_dropped_indices, filtered_len)

(***************************************************************************)
(* google_earth_merge: chaining the Placemarks                             *)
(***************************************************************************)
InsertAfter(s, pos, x) == SubSeq(s, 1, pos) \o <<x>> \o SubSeq(s, pos + 1, Len(s))

RemoveAt(s, pos) == SubSeq(s, 1, pos - 1) \o SubSeq(s, pos + 1, Len(s))

\* variant: every donor Placemark goes right behind the base's own
AddNext_AfterBase(heap, base, cursor, t, p) ==
    LET pm == heap[t].pms[p]
        taken == [heap EXCEPT ![t].pms = RemoveAt(@, p)]
    IN  [taken EXCEPT ![base].pms =
            InsertAfter(@, find_first_track_placemark(heap[base]), pm)]

\* base_track_pm.addnext(next_track_pm): the Placemark leaves its document
\* and becomes the sibling right behind the cursor
AddNext(heap, base, cursor, t, p) ==
    LET pm == heap[t].pms[p]
        taken == [heap EXCEPT ![t].pms = RemoveAt(@, p)]
    IN  [taken EXCEPT ![base].pms = InsertAfter(@, cursor, pm)]

RECURSIVE ChainFrom(_, _, _, _)
ChainFrom(heap, base, cursor, others) ==
    IF others = <<>> THEN Ok(heap)
    ELSE LET t == Head(others)
             next_track_pm == find_first_track_placemark(heap[t])
         IN  IF next_track_pm = 0 THEN Raise("AssertionError", heap)
             ELSE IF cursor = 0 THEN Raise("AttributeError", heap)
             ELSE ChainFrom(AddNext(heap, base, cursor, t, next_track_pm),
                            base, cursor + 1, Tail(others))

\* lines 190-198 of google_earth_merge
chain_track_placemarks(heap, trees) ==
    IF trees = <<>> THEN Raise("IndexError", heap)
    ELSE ChainFrom(heap, trees[1], find_first_track_placemark(heap[trees[1]]), Tail(trees))

(***************************************************************************)
(* myflightbook_merge: appending the points                                *)
(***************************************************************************)
count_coords(tree) == Len(findall_coords(tree))

\* variant: the donor's points are put in front of the base's
AppendPoints_AtFront(heap, base, track, t) ==
    LET whens == findall_when(heap[t])
        coords == findall_coords(heap[t])
        m == ZipLen(whens, coords)
        mw == SubSeq(whens, 1, m)
        mc == SubSeq(coords, 1, m)
        taken == [heap EXCEPT ![t].pms =
                     [i \in 1..Len(@) |->
                        [@[i] EXCEPT
                           !.whens = SelectSeq(@, LAMBDA x : x \notin Range(mw)),
                           !.coords = SelectSeq(@, LAMBDA x : x \notin Range(mc))]]]
    IN  [taken EXCEPT ![base].pms[track].whens = mw \o @,
                      ![base].pms[track].coords = mc \o @]

\* for when, coord in zip(whens, coords): base_track_pm.append(when); ...append(coord)
AppendPoints(heap, base, track, t) ==
    LET whens == findall_when(heap[t])
        coords == findall_coords(heap[t])
        m == ZipLen(whens, coords)
        mw == SubSeq(whens, 1, m)
        mc == SubSeq(coords, 1, m)
        taken == [heap EXCEPT ![t].pms =
                     [i \in 1..Len(@) |->
                        [@[i] EXCEPT
                           !.whens = SelectSeq(@, LAMBDA x : x \notin Range(mw)),
                           !.coords = SelectSeq(@, LAMBDA x : x \notin Range(mc))]]]
    IN  [taken EXCEPT ![base].pms[track].whens = @ \o mw,
                      ![base].pms[track].coords = @ \o mc]

RECURSIVE AppendFrom(_, _, _, _)
AppendFrom(heap, base, track, others) ==
    IF others = <<>> THEN heap
    ELSE AppendFrom(AppendPoints(heap, base, track, Head(others)), base, track, Tail(others))

CoordCountOk(after, num_coords_before) == after = num_coords_before

\* lines 204-221 of myflightbook_merge
append_track_points(heap, trees) ==
    IF trees = <<>> THEN Raise("IndexError", heap)
    ELSE LET base == trees[1]
             num_coords_before ==
                 SumSeq([i \in 1..Len(trees) |-> count_coords(heap[trees[i]])])
             track == find_track(heap[base])
         IN  IF num_coords_before = 0 THEN Raise("AssertionError", heap)
             ELSE IF track = 0 THEN Raise("AssertionError", heap)
             ELSE LET h == AppendFrom(heap, base, track, Tail(trees))
                  IN  IF ~CoordCountOk(count_coords(h[base]), num_coords_before)
                      THEN Raise("AssertionError", h)
                      ELSE Ok(h)

\* remove_el(find_schemadata(base_tree))
remove_schemadata(tree) == [tree EXCEPT !.sads = <<>>]

(***************************************************************************)
(* State                                                                   *)
(***************************************************************************)
VARIABLES
    disk,         \* the input documents as they were handed in, by file number
    heap,         \* the parsed documents in memory, by file number
    trees,        \* the list of documents the current call works on
    indices,      \* the selection indices of the run
    merge,        \* merge_type
    final_title,  \* the combined title
    pc,           \* where the run stands
    err,          \* the exception that ended the run, "" for none
    kml,          \* the output document: <<>> until write_kml wrote it
    csv,          \* the rows of the tabular export: <<>> until to_mfb_csv wrote it
    archived      \* the files moved to old_dir

vars == <<disk, heap, trees, indices, merge, final_title, pc, err, kml, csv, archived>>

MergeTypes == {"google", "mfb", "mfb-sad"}

NoOutput == kml = <<>> /\ csv = <<>> /\ archived = {}

(***************************************************************************)
(* Inputs                                                                  *)
(***************************************************************************)
Points(npts) == {pt \in (DOMAIN npts) \X (1..MaxPoints) : pt[2] <= npts[pt[1]]}

BadSets(npts) == {S \in SUBSET Points(npts) : Cardinality(S) <= MaxBad}

Defects(N) == {NoDefect} \cup (DefectKinds \X (1..N))

TitleSet ==
    { <<>>,
      <<"A">>,
      <<"B">>,
      <<"A", " ", "-", " ", "B">>,
      <<"B", " ", "-", " ", "A">>,
      <<"B", " ", "-", " ", "C", " ", "-", " ", "A">>,
      <<" ", "-", " ", "B">>,
      <<"B", "-", "A">>,
      <<"K", "S", "J", "C", " ", "-", " ", "K", "P", "A", "O">>,
      <<"K", "P", "A", "O", " ", "-", " ", "K", "O", "A", "K">> }

\* selection indices: none, up to two distinct positions, one past the end,
\* and Python's -1
IndexChoices(N) ==
    InjectiveSeqs(0..(N - 1), 2) \cup {<<N>>, <<0 - 1>>}

Idle ==
    /\ final_title = <<>> /\ err = ""
    /\ kml = <<>> /\ csv = <<>> /\ archived = {}

\* merge_ff: the files of one run.  The files of a run have the same number
\* of points; a run has bad points or one structural defect.
Init ==
    /\ \E N \in 0..MaxTracks :
       \E npts \in {[k \in 1..N |-> n] : n \in 1..MaxPoints} :
       \E start \in [1..N -> StartTimes] :
       \E defect \in Defects(N) :
       \E bad \in BadSets(npts) :
          /\ defect # NoDefect => bad = {}
          /\ disk = [k \in 1..N |-> MkTree(k, npts[k], start[k], bad, defect, TitleOf(k))]
    /\ heap = <<>>
    /\ trees = <<>>
    /\ indices \in IndexChoices(Len(disk))
    /\ merge \in MergeTypes
    /\ pc = "start"
    /\ Idle

\* merge_ff_kmls called on documents already in memory, in the order given
BaseTime == [s |-> 1, cs |-> 50]

InitKmls ==
    /\ \E N \in 0..MaxTracks :
       \E npts \in [1..N -> 1..MaxPoints] :
       \E defect \in Defects(N) :
       \E bad \in BadSets(npts) :
          /\ disk = [k \in 1..N |->
                       MkTree(k, npts[k], [BaseTime EXCEPT !.s = k], bad, defect, TitleOf(k))]
          /\ trees = [k \in 1..N |-> k]
    /\ heap = disk
    /\ indices = <<>>
    /\ merge \in MergeTypes
    /\ pc = "titles"
    /\ Idle

\* merge_ff_kmls called on sound one-point documents with any titles
InitTitles ==
    /\ \E N \in 0..MaxTracks :
       \E title \in [1..N -> TitleSet] :
          /\ disk = [k \in 1..N |->
                       MkTree(k, 1, [BaseTime EXCEPT !.s = k], {}, NoDefect, title[k])]
          /\ trees = [k \in 1..N |-> k]
    /\ heap = disk
    /\ indices = <<>>
    /\ merge \in MergeTypes
    /\ pc = "titles"
    /\ Idle

\* filter_bad_items_from_track called on one document that holds the points
\* and series of several recordings, in one Track or in one Track per recording
Assemble(docs, shape) ==
    LET order == [k \in 1..Len(docs) |-> k]
        placed == IF shape = "google" THEN chain_track_placemarks(docs, order).val
                  ELSE append_track_points(docs, order).val
    IN  merge_simplearraydata(placed, 1, Tail(order)).val[1]

InitFilter ==
    /\ \E N \in 1..MaxTracks :
       \E npts \in [1..N -> 1..MaxPoints] :
       \E defect \in Defects(N) :
       \E bad \in BadSets(npts) :
       \E shape \in {"google", "mfb-sad"} :
          disk = <<Assemble([k \in 1..N |->
                       MkTree(k, npts[k], [BaseTime EXCEPT !.s = k], bad, defect, TitleOf(k))],
                     shape)>>
    /\ heap = disk
    /\ trees = <<1>>
    /\ indices = <<>>
    /\ merge = "none"
    /\ pc = "call_filter"
    /\ Idle

(***************************************************************************)
(* Steps of merge_ff                                                       *)
(***************************************************************************)
Fail(e) == pc' = "failed" /\ err' = e

\* all_trees = list(map(read_kml, filenames))
ReadKml ==
    /\ pc = "start"
    /\ heap' = disk
    /\ trees' = [k \in 1..Len(disk) |-> k]
    /\ pc' = "sort"
    /\ UNCHANGED <<disk, indices, merge, final_title, err, kml, csv, archived>>

\* sort_and_select(indices, all_trees)
SortAndSelect ==
    /\ pc = "sort"
    /\ LET r == sort_and_select(indices, trees, heap)
       IN  IF r.ok THEN trees' = r.val /\ pc' = "titles" /\ err' = err
           ELSE trees' = trees /\ Fail(r.err)
    /\ UNCHANGED <<disk, heap, indices, merge, final_title, kml, csv, archived>>

\* merge_ff_kmls: final_title = combine_flight_titles(...)
CombineTitles ==
    /\ pc = "titles"
    /\ final_title' = combine_flight_titles([n \in 1..Len(trees) |-> flight_title(heap[trees[n]])])
    /\ pc' = "merge"
    /\ UNCHANGED <<disk, heap, trees, indices, merge, err, kml, csv, archived>>

\* google_earth_merge up to the call of merge_simplearraydata
ChainPlacemarks ==
    /\ pc = "merge" /\ merge = "google"
    /\ LET r == chain_track_placemarks(heap, trees)
       IN  /\ heap' = r.val
           /\ IF r.ok THEN pc' = "sad" /\ err' = err ELSE Fail(r.err)
    /\ UNCHANGED <<disk, trees, indices, merge, final_title, kml, csv, archived>>

\* myflightbook_merge up to the test of merge_sad
AppendTrackPoints ==
    /\ pc = "merge" /\ merge \in {"mfb", "mfb-sad"}
    /\ LET r == append_track_points(heap, trees)
       IN  /\ heap' = r.val
           /\ IF r.ok THEN pc' = (IF merge = "mfb-sad" THEN "sad" ELSE "dropsad") /\ err' = err
              ELSE Fail(r.err)
    /\ UNCHANGED <<disk, trees, indices, merge, final_title, kml, csv, archived>>

\* merge_simplearraydata(base_tree, other_trees)
MergeSimpleArrayData ==
    /\ pc = "sad"
    /\ LET r == merge_simplearraydata(heap, trees[1], Tail(trees))
       IN  /\ heap' = r.val
           /\ IF r.ok THEN pc' = "filter" /\ err' = err ELSE Fail(r.err)
    /\ UNCHANGED <<disk, trees, indices, merge, final_title, kml, csv, archived>>

\* variant: the exception of the filter is recorded and the run goes on
FilterBadItems_Swallow ==
    /\ pc = "filter"
    /\ LET r == filter_bad_items_from_track(heap[trees[1]])
       IN  /\ heap' = [heap EXCEPT ![trees[1]] = r.val]
           /\ pc' = "settitle"
           /\ err' = r.err
    /\ UNCHANGED <<disk, trees, indices, merge, final_title, kml, csv, archived>>

\* filter_bad_items_from_track(tree), the last call of both merges with series
FilterBadItems ==
    /\ pc = "filter"
    /\ LET r == filter_bad_items_from_track(heap[trees[1]])
       IN  /\ heap' = [heap EXCEPT ![trees[1]] = r.val]
           /\ IF r.ok THEN pc' = "settitle" /\ err' = err ELSE Fail(r.err)
    /\ UNCHANGED <<disk, trees, indices, merge, final_title, kml, csv, archived>>

\* myflightbook_merge without series: remove_el(find_schemadata(base_tree))
RemoveSchemaData ==
    /\ pc = "dropsad"
    /\ heap' = [heap EXCEPT ![trees[1]] = remove_schemadata(@)]
    /\ pc' = "settitle"
    /\ UNCHANGED <<disk, trees, indices, merge, final_title, err, kml, csv, archived>>

\* find_flight_title(base_tree).find("value").text = final_title
SetTitle ==
    /\ pc = "settitle"
    /\ heap' = [heap EXCEPT ![trees[1]].title = final_title]
    /\ pc' = "merged"
    /\ UNCHANGED <<disk, trees, indices, merge, final_title, err, kml, csv, archived>>

\* write_kml(kmloutname, merged)
WriteKml ==
    /\ pc = "merged"
    /\ kml' = <<heap[trees[1]]>>
    /\ pc' = (IF merge = "mfb-sad" THEN "csv" ELSE "archive")
    /\ UNCHANGED <<disk, heap, trees, indices, merge, final_title, err, csv, archived>>

\* one row per zip(whens, coords, speed_kts values, course values)
CsvRows(tree) ==
    LET whens == findall_when(tree)
        coords == findall_coords(tree)
        col(name) == LET j == find_sad(tree, name)
                     IN  IF j = 0 THEN <<>> ELSE tree.sads[j].vals
        rows == Min(ZipLen(whens, coords), ZipLen(col("speed_kts"), col("course")))
    IN  [n \in 1..rows |-> [DATE |-> whens[n].text.s, ALT |-> coords[n].alt,
                            AIRSPEED |-> col("speed_kts")[n].pt, COURSE |-> col("course")[n].pt]]

\* to_mfb_csv(base_name + ".csv", merged)
ToMfbCsv ==
    /\ pc = "csv"
    /\ csv' = <<CsvRows(heap[trees[1]])>>
    /\ pc' = "archive"
    /\ UNCHANGED <<disk, heap, trees, indices, merge, final_title, err, kml, archived>>

\* if old_dir: move every input file into it
Archive ==
    /\ pc = "archive"
    /\ \E old_dir \in BOOLEAN :
          archived' = IF old_dir THEN DOMAIN disk ELSE {}
    /\ pc' = "done"
    /\ UNCHANGED <<disk, heap, trees, indices, merge, final_title, err, kml, csv>>

(***************************************************************************)
(* Direct calls of filter_bad_items_from_track                             *)
(***************************************************************************)
CallFilter ==
    /\ pc = "call_filter"
    /\ LET r == filter_bad_items_from_track(heap[1])
       IN  /\ heap' = <<r.val>>
           /\ IF r.ok THEN pc' = "call_filter_again" /\ err' = err ELSE Fail(r.err)
    /\ UNCHANGED <<disk, trees, indices, merge, final_title, kml, csv, archived>>

CallFilterAgain ==
    /\ pc = "call_filter_again"
    /\ LET r == filter_bad_items_from_track(heap[1])
       IN  /\ heap' = <<r.val>>
           /\ IF r.ok THEN pc' = "filtered_twice" /\ err' = err ELSE Fail(r.err)
    /\ UNCHANGED <<disk, trees, indices, merge, final_title, kml, csv, archived>>

(***************************************************************************)
(* Specifications                                                          *)
(***************************************************************************)
NextKmls ==
    \/ CombineTitles
    \/ ChainPlacemarks
    \/ AppendTrackPoints
    \/ MergeSimpleArrayData
    \/ FilterBadItems
    \/ RemoveSchemaData
    \/ SetTitle

Next ==
    \/ ReadKml
    \/ SortAndSelect
    \/ NextKmls
    \/ WriteKml
    \/ ToMfbCsv
    \/ Archive

NextFilter == CallFilter \/ CallFilterAgain

\* a run of merge_ff
Spec == Init /\ [][Next]_vars

\* a call of merge_ff_kmls
SpecKmls == InitKmls /\ [][NextKmls]_vars

\* a call of merge_ff_kmls, over the titles
SpecTitles == InitTitles /\ [][NextKmls]_vars

\* two calls of filter_bad_items_from_track on one document
SpecFilter == InitFilter /\ [][NextFilter]_vars

(***************************************************************************)
(* Vocabulary of the properties                                            *)
(***************************************************************************)
PtsOf(els) == [i \in 1..Len(els) |-> els[i].pt]

\* the named series are aligned with the points: same length, value k
\* belongs to point k
Aligned(tree) ==
    /\ PtsOf(findall_when(tree)) = PtsOf(findall_coords(tree))
    /\ \A j \in 1..Len(tree.sads) : PtsOf(tree.sads[j].vals) = PtsOf(findall_when(tree))

\* ARR-EQ
ArrEq(tree) ==
    /\ Len(findall_when(tree)) = Len(findall_coords(tree))
    /\ \A j \in 1..Len(tree.sads) : Len(tree.sads[j].vals) = Len(findall_when(tree))

\* the 1-based positions of the points below ground
NegativeAt(tree) ==
    {i \in 1..Len(findall_coords(tree)) : findall_coords(tree)[i].alt < 0}

\* s without the elements at the positions in I
RECURSIVE Without(_, _)
Without(s, I) ==
    IF s = <<>> THEN <<>>
    ELSE Without(SubSeq(s, 1, Len(s) - 1), I) \o
         (IF Len(s) \in I THEN <<>> ELSE <<s[Len(s)]>>)

Input == disk[1]

Output == heap[1]

(***************************************************************************)
(* C1: after filter_bad_items_from_track ran on a document whose series    *)
(* are aligned with its points, every series holds exactly the values of   *)
(* the positions that were not below ground, in their original order.      *)
(***************************************************************************)
C1_FilterCorrelatedRemoval ==
    (pc = "call_filter_again" /\ Aligned(Input)) =>
        \A j \in 1..Len(Input.sads) :
            Output.sads[j].vals = Without(Input.sads[j].vals, NegativeAt(Input))

(***************************************************************************)
(* C2: filter_bad_items_from_track raises nothing on a document whose      *)
(* timestamps, coordinates and series all have the same length.            *)
(***************************************************************************)
C2_FilterNeverFailsOnAligned ==
    ArrEq(Input) => pc # "failed"

(***************************************************************************)
(* C10: a filter run on a document without a point below ground changes    *)
(* nothing, and a second run after a first one that succeeded changes      *)
(* nothing and succeeds.                                                   *)
(***************************************************************************)
C10_FilterIdempotent ==
    [][ /\ (pc = "call_filter" /\ NegativeAt(Output) = {}) => heap' = heap
        /\ pc = "call_filter_again" => (heap' = heap /\ pc' = "filtered_twice")
      ]_vars

C10_Witness ==
    /\ pc = "filtered_twice"
    /\ Len(findall_when(Output)) < Len(findall_when(Input))
    /\ Output.sads # <<>>

(***************************************************************************)
(* C3: in the document that a run with series (google, mfb-sad) puts out,  *)
(* the timestamps, the coordinates and every named series have the same    *)
(* length.                                                                 *)
(***************************************************************************)
C3_ArrEqPostMerge ==
    merge \in {"google", "mfb-sad"} =>
        /\ pc \in {"settitle", "merged", "csv", "archive", "done"} => ArrEq(heap[trees[1]])
        /\ kml # <<>> => ArrEq(kml[1])

C3_Witness ==
    /\ pc = "done"
    /\ merge = "mfb-sad"
    /\ Len(trees) >= 2
    /\ kml[1].sads # <<>>
    /\ Len(findall_when(kml[1])) + 2 =
          SumSeq([n \in 1..Len(trees) |-> Len(findall_when(disk[trees[n]]))])

(***************************************************************************)
(* C4: sort_and_select returns the documents ascending by the timestamp of *)
(* their first point, equal start times in input order; selection indices  *)
(* pick positions of the sorted list; no document at all is a failure.     *)
(***************************************************************************)
FirstStamp(k) == findall_when(disk[k])[1].text

StampLess(a, b) == a.s < b.s \/ (a.s = b.s /\ a.cs < b.cs)

IsStablySorted(s) ==
    /\ Range(s) = DOMAIN disk
    /\ \A i, j \in 1..Len(s) :
          i < j => \/ StampLess(FirstStamp(s[i]), FirstStamp(s[j]))
                   \/ (FirstStamp(s[i]) = FirstStamp(s[j]) /\ s[i] < s[j])

SortedFiles == CHOOSE s \in [DOMAIN disk -> DOMAIN disk] : IsStablySorted(s)

PickAt(s, i) == s[(IF i >= 0 THEN i ELSE Len(s) + i) + 1]

C4_SortAndSelect ==
    /\ pc = "titles" =>
          /\ \E s \in [DOMAIN disk -> DOMAIN disk] : IsStablySorted(s)
          /\ trees = IF indices = <<>> THEN SortedFiles
                     ELSE [n \in 1..Len(indices) |-> PickAt(SortedFiles, indices[n])]
    /\ (Len(disk) = 0 /\ pc \notin {"start", "sort"}) => pc = "failed"

C4_Witness ==
    /\ pc = "titles"
    /\ Len(disk) = 3
    /\ indices = <<2, 0>>
    /\ trees = <<3, 2>>
    /\ FirstStamp(1) = FirstStamp(3)

(***************************************************************************)
(* C5: after the flat merge appended the points, the base's one Track      *)
(* holds the base's points followed by every donor's points in donor       *)
(* order, each timestamp still paired with its coordinate; a step that     *)
(* went through kept the total number of coordinates.                      *)
(***************************************************************************)
Appended == {"sad", "dropsad"}

PairAligned(tree) == PtsOf(findall_when(tree)) = PtsOf(findall_coords(tree))

TrackPms(tree) == SelectSeq(tree.pms, LAMBDA pm : pm.track)

C5_FlatConservation ==
    (merge \in {"mfb", "mfb-sad"} /\ pc \in Appended) =>
        LET base == heap[trees[1]]
            inputs == [n \in 1..Len(trees) |-> disk[trees[n]]]
        IN  /\ (\A n \in 1..Len(trees) : PairAligned(inputs[n])) =>
                 /\ Len(TrackPms(base)) = 1
                 /\ TrackPms(base)[1].whens =
                       Concat([n \in 1..Len(trees) |-> findall_when(inputs[n])])
                 /\ TrackPms(base)[1].coords =
                       Concat([n \in 1..Len(trees) |-> findall_coords(inputs[n])])
                 /\ PairAligned(base)
                 /\ Len(findall_when(base)) =
                       SumSeq([n \in 1..Len(trees) |-> Len(findall_when(inputs[n]))])
            /\ Len(findall_coords(base)) =
                  SumSeq([n \in 1..Len(trees) |-> Len(findall_coords(inputs[n]))])

C5_Witness ==
    /\ pc = "sad"
    /\ merge = "mfb-sad"
    /\ Len(trees) = 3
    /\ \A k \in 1..3 : PairAligned(disk[k])
    /\ Len(findall_when(disk[1])) # Len(findall_when(disk[2]))
    /\ Len(findall_when(heap[1])) =
          Len(findall_when(disk[1])) + Len(findall_when(disk[2])) + Len(findall_when(disk[3]))

(***************************************************************************)
(* C6: after merge_simplearraydata every series of the base holds the      *)
(* base's values followed by every donor's values of that name, in donor   *)
(* order; the call fails when a donor lacks such a series or when a        *)
(* combined series is not as long as the base has timestamps.              *)
(***************************************************************************)
HasSeries(tree, name) == \E i \in 1..Len(tree.sads) : tree.sads[i].name = name

SeriesOf(tree, name) ==
    tree.sads[CHOOSE i \in 1..Len(tree.sads) : tree.sads[i].name = name].vals

DonorLacksSeries ==
    \E n \in 2..Len(trees) : \E j \in 1..Len(disk[trees[1]].sads) :
        ~HasSeries(disk[trees[n]], disk[trees[1]].sads[j].name)

C6_SeriesMerge ==
    /\ pc = "filter" =>
          LET base == heap[trees[1]]
              before == disk[trees[1]]
          IN  /\ ~DonorLacksSeries
              /\ Len(base.sads) = Len(before.sads)
              /\ \A j \in 1..Len(before.sads) :
                    /\ base.sads[j].name = before.sads[j].name
                    /\ base.sads[j].vals =
                          Concat([n \in 1..Len(trees) |->
                                    SeriesOf(disk[trees[n]], before.sads[j].name)])
                    /\ Len(base.sads[j].vals) = Len(findall_when(base))
    /\ (merge # "mfb" /\ pc \notin {"titles", "merge", "sad"} /\ trees # <<>>
          /\ DonorLacksSeries) => pc = "failed"

C6_Witness ==
    /\ pc = "filter"
    /\ merge = "google"
    /\ Len(trees) = 3
    /\ Len(heap[1].sads) = 2
    /\ Len(heap[1].sads[2].vals) > Len(disk[1].sads[2].vals) + 1

(***************************************************************************)
(* C7: the combined title is the left fold that starts from the first      *)
(* non-empty title and joins each later title on to it: when the           *)
(* accumulator ends with the title's first " - " piece, that piece is      *)
(* taken once and the rest of the title follows; otherwise the title is    *)
(* appended as it is.  merge_ff_kmls writes this fold of the titles the    *)
(* documents had before the merge into the base.                           *)
(***************************************************************************)
\* the part of title before its first " - ", the whole title without one
FirstPiece(title) ==
    LET seps == {p \in 1..(Len(title) - 2) :
                    title[p] = " " /\ title[p + 1] = "-" /\ title[p + 2] = " "}
    IN  IF seps = {} THEN title
        ELSE SubSeq(title, 1, (CHOOSE p \in seps : \A q \in seps : p <= q) - 1)

HasSuffix(acc, piece) ==
    \E n \in 0..Len(acc) : acc = SubSeq(acc, 1, n) \o piece

RECURSIVE TitleFold(_, _)
TitleFold(acc, titles) ==
    IF titles = <<>> THEN acc
    ELSE LET title == Head(titles)
             next == IF acc = <<>> THEN title
                     ELSE IF HasSuffix(acc, FirstPiece(title))
                          THEN acc \o SubSeq(title, Len(FirstPiece(title)) + 1, Len(title))
                          ELSE acc \o title
         IN  TitleFold(next, Tail(titles))

InputTitles == [n \in 1..Len(trees) |-> disk[trees[n]].title]

KSJC_KPAO == <<"K", "S", "J", "C", " ", "-", " ", "K", "P", "A", "O">>

KPAO_KOAK == <<"K", "P", "A", "O", " ", "-", " ", "K", "O", "A", "K">>

KSJC_KPAO_KOAK ==
    <<"K", "S", "J", "C", " ", "-", " ", "K", "P", "A", "O", " ", "-", " ", "K", "O", "A", "K">>

C7_TitleReconciliation ==
    /\ pc # "titles" =>
          /\ final_title = TitleFold(<<>>, InputTitles)
          /\ InputTitles = <<KSJC_KPAO, KPAO_KOAK>> => final_title = KSJC_KPAO_KOAK
          /\ InputTitles = << <<"A">>, <<"B">> >> => final_title = <<"A", "B">>
          /\ InputTitles = <<>> => final_title = <<>>
    /\ pc = "merged" => heap[trees[1]].title = TitleFold(<<>>, InputTitles)

C7_Witness ==
    /\ pc = "merged"
    /\ Len(trees) = 3
    /\ InputTitles = << <<>>, KSJC_KPAO, KPAO_KOAK>>
    /\ heap[trees[1]].title = KSJC_KPAO_KOAK

(***************************************************************************)
(* C8: a run of merge_ff in which a step failed wrote no output document   *)
(* and no export and archived no input; the document is written only       *)
(* after sort, merge and filter went through, the export and the           *)
(* archiving only after the document.                                      *)
(***************************************************************************)
C8_AbortBeforeOutput ==
    /\ (pc = "failed" \/ err # "") => NoOutput
    /\ kml # <<>> => (pc \in {"csv", "archive", "done"} /\ err = "")
    /\ csv # <<>> => (kml # <<>> /\ pc \in {"archive", "done"})
    /\ archived # {} => (kml # <<>> /\ pc = "done")

C8_Witness ==
    /\ pc = "failed"
    /\ err = "ValueError"
    /\ merge = "google"
    /\ Len(trees) >= 2
    /\ NoOutput

(***************************************************************************)
(* C9: after google_earth_merge chained the Placemarks of documents that   *)
(* each have a track Placemark, the base holds exactly one track Placemark *)
(* per document, consecutively and in the order of the list, its own       *)
(* first; a donor without a track Placemark makes the merge fail.          *)
(***************************************************************************)
HasGroup(tree) == \E i \in 1..Len(tree.pms) : tree.pms[i].track

GroupOf(tree) == TrackPms(tree)[1]

FirstGroupAt(tree) ==
    CHOOSE i \in 1..Len(tree.pms) : tree.pms[i].track /\ \A j \in 1..(i - 1) : ~tree.pms[j].track

C9_SegmentedChaining ==
    merge = "google" =>
        /\ (pc = "sad" /\ \A n \in 1..Len(trees) : HasGroup(disk[trees[n]])) =>
              LET base == heap[trees[1]]
              IN  /\ Len(TrackPms(base)) = Len(trees)
                  /\ \A n \in 1..Len(trees) :
                        base.pms[FirstGroupAt(base) + n - 1] = GroupOf(disk[trees[n]])
        /\ (pc \notin {"titles", "merge"}
              /\ \E n \in 2..Len(trees) : ~HasGroup(disk[trees[n]])) =>
              (pc = "failed" /\ NoOutput)

C9_Witness ==
    /\ pc = "sad"
    /\ merge = "google"
    /\ Len(trees) = 3
    /\ \A n \in 1..3 : HasGroup(disk[n])
    /\ Len(TrackPms(heap[1])) = 3

====
